---- MODULE Spec2Model ----
(***************************************************************************)
(* Friendship lifecycle of the admin panel (src/src/components/            *)
(* AdminPanel.tsx): handleAddFriend (Connect), handleRemoveFriend          *)
(* (Disconnect) and loadData over the friendships and friendship_logs      *)
(* tables, together with the read model the component derives from them.   *)
(*                                                                         *)
(* Every `await` of a handler is a step of its own, so invocations may     *)
(* overlap: nothing in the component serialises them.  A store call that   *)
(* reports an error has changed nothing.  Identifiers are integers         *)
(* compared with <, the way the code compares the id strings; timestamps   *)
(* are integers read from a non-decreasing clock.  Under Spec the profiles  *)
(* table is fixed: the profile form and handleDeleteUser are not part of   *)
(* the lifecycle.  SpecProfiles runs them, with loadData and the log       *)
(* card's selection, over a store without friendships.                     *)
(***************************************************************************)
EXTENDS Integers, Sequences, FiniteSets, TLC

\* ---------------------------------------------------------------- bounds
NumProfiles == 2      \* rows of the profiles table
NumProcs == 2         \* handler invocations that may be in flight at once
MaxOps == 3           \* handler invocations started in one behaviour
MaxClock == 3         \* largest value the clock reaches

\* null of `ended_at: string | null` and of the useState<... | null> cells
NULL == 0

ProfileIds == 1..NumProfiles
Procs == 1..NumProcs

VARIABLES
  dbProfiles,         \* table profiles: the ids, created_at descending
  dbFriendships,      \* table friendships: sequence of rows, id = position
  dbFriendshipLogs,   \* table friendship_logs: sequence of rows, id = position
  clock,              \* the wall clock read by new Date()
  profiles,           \* useState: loaded profile ids, created_at descending
  friendships,        \* useState: loaded friendships rows
  friendshipLogs,     \* useState: loaded log rows
  loading,            \* useState: initial loader shown
  friendManagerUser,  \* useState: profile whose friend dialog is open
  selectedLogUserId,  \* useState: profile selected in the log card
  inv,                \* the frame of each handler invocation in flight
  started,            \* number of handler invocations started
  overlapped,         \* some invocation started while another was in flight
  history             \* the invocations that returned, in order, for as long
                      \* as no two invocations overlapped; empty afterwards

vars == <<dbProfiles, dbFriendships, dbFriendshipLogs, clock, profiles, friendships,
          friendshipLogs, loading, friendManagerUser, selectedLogUserId,
          inv, started, overlapped, history>>

dbVars == <<dbProfiles, dbFriendships, dbFriendshipLogs>>
uiVars == <<profiles, friendships, friendshipLogs, selectedLogUserId>>

\* the profiles table the friendship lifecycle runs over, in the order
\* loadData asks for (created_at descending)
InitialProfiles == [i \in 1..NumProfiles |-> NumProfiles + 1 - i]

\* the contents the profiles table can have: distinct ids in any order
ProfileTables ==
  {s \in UNION {[1..n -> ProfileIds] : n \in 0..NumProfiles} :
     \A i, j \in 1..Len(s) : i # j => s[i] # s[j]}

\* ------------------------------------------------------- pure helpers
Range(s) == {s[i] : i \in 1..Len(s)}

\* mutant: the filter matches the pair one way round only
MatchesPairOneWay(f, userId, friendId) ==
  f.user_a_id = userId /\ f.user_b_id = friendId

\* the .or(and(a,b),and(b,a)) filter of both lookups
MatchesPair(f, userId, friendId) ==
  \/ (f.user_a_id = userId /\ f.user_b_id = friendId)
  \/ (f.user_a_id = friendId /\ f.user_b_id = userId)

\* the rows the .or(...) filter lets through
PairRows(rows, x, y) == {i \in 1..Len(rows) : MatchesPair(rows[i], x, y)}

\* mutant: the .is('ended_at', null) filter is missing
ActivePairRowsAnyState(rows, x, y) == PairRows(rows, x, y)

\* the rows the .or(...).is('ended_at', null) filter lets through
ActivePairRows(rows, x, y) == {i \in PairRows(rows, x, y) : rows[i].ended_at = NULL}

\* possible results of handleAddFriend's lookup:
\* order by started_at descending, limit 1, maybeSingle
AddExisting(rows, userId, friendId) ==
  LET m == PairRows(rows, userId, friendId)
  IN IF m = {} THEN {NULL}
     ELSE {i \in m : \A j \in m : rows[j].started_at <= rows[i].started_at}

\* mutant: the lookup takes one of several matching rows instead of failing
RemoveLookupFailsNever(rows, userId, friendId) == FALSE

\* handleRemoveFriend's lookup: .is('ended_at', null).maybeSingle();
\* maybeSingle reports an error when more than one row matches
RemoveLookupFails(rows, userId, friendId) ==
  Cardinality(ActivePairRows(rows, userId, friendId)) > 1

RemoveExisting(rows, userId, friendId) ==
  LET m == ActivePairRows(rows, userId, friendId)
  IN IF m = {} THEN NULL ELSE CHOOSE i \in m : TRUE

\* mutant: the self-pair guard is missing
IsSelfPairNever(userId, friendId) == FALSE

\* the guard friendManagerUser.id === friendId
IsSelfPair(userId, friendId) == userId = friendId

\* mutant: the negation of ended_at is dropped
AlreadyFriendsInverted(rows, existing) ==
  existing # NULL /\ rows[existing].ended_at # NULL

\* existingFriendship && !existingFriendship.ended_at
AlreadyFriends(rows, existing) ==
  existing # NULL /\ rows[existing].ended_at = NULL

\* mutant: the pair is stored the way the caller passed it
CanonicalPairAsGiven(userId, friendId) == <<userId, friendId>>

\* [primaryId, secondaryId]
CanonicalPair(userId, friendId) ==
  IF userId < friendId THEN <<userId, friendId>> ELSE <<friendId, userId>>

\* mutant: the update leaves ended_at as it was
ReactivateRowKeepsEnded(rows, existing, now) ==
  [rows EXCEPT ![existing].started_at = now]

\* update({started_at: now, ended_at: null}).eq('id', existing.id)
ReactivateRow(rows, existing, now) ==
  [rows EXCEPT ![existing].started_at = now, ![existing].ended_at = NULL]

\* mutant: the insert does nothing when the pair already has a row
InsertRowIfAbsent(rows, userId, friendId, now) ==
  IF PairRows(rows, userId, friendId) # {} THEN rows
  ELSE Append(rows, [id |-> Len(rows) + 1,
                     user_a_id |-> CanonicalPair(userId, friendId)[1],
                     user_b_id |-> CanonicalPair(userId, friendId)[2],
                     started_at |-> now, ended_at |-> NULL])

\* insert([{user_a_id: primaryId, user_b_id: secondaryId, started_at, ended_at}])
InsertRow(rows, userId, friendId, now) ==
  Append(rows, [id |-> Len(rows) + 1,
                user_a_id |-> CanonicalPair(userId, friendId)[1],
                user_b_id |-> CanonicalPair(userId, friendId)[2],
                started_at |-> now, ended_at |-> NULL])

\* mutant: the update only touches a row that is still active
EndRowIfActive(rows, existing, now) ==
  IF rows[existing].ended_at = NULL
  THEN [rows EXCEPT ![existing].ended_at = now]
  ELSE rows

\* mutant: the update also overwrites started_at
EndRowResetsStart(rows, existing, now) ==
  [rows EXCEPT ![existing].ended_at = now, ![existing].started_at = now]

\* update({ended_at: now}).eq('id', existing.id)
EndRow(rows, existing, now) == [rows EXCEPT ![existing].ended_at = now]

\* mutant: the log row is given the canonical pair instead of actor and other
LogRowCanonical(logs, userId, friendId, action, now) ==
  [id |-> Len(logs) + 1,
   user_a_id |-> CanonicalPair(userId, friendId)[1],
   user_b_id |-> CanonicalPair(userId, friendId)[2],
   action |-> action, created_at |-> now]

\* mutant: the log row gets a timestamp of its own, read after the row write
LogRowOwnTimestamp(logs, userId, friendId, action, now) ==
  [id |-> Len(logs) + 1, user_a_id |-> userId, user_b_id |-> friendId,
   action |-> action, created_at |-> now + 1]

\* the row handed to friendship_logs.insert
LogRow(logs, userId, friendId, action, now) ==
  [id |-> Len(logs) + 1, user_a_id |-> userId, user_b_id |-> friendId,
   action |-> action, created_at |-> now]

\* mutant: the insert replaces the newest log row instead of adding one
InsertLogOverwrites(logs, userId, friendId, action, now) ==
  IF logs = <<>> THEN <<LogRow(logs, userId, friendId, action, now)>>
  ELSE [logs EXCEPT ![Len(logs)] =
          [LogRow(logs, userId, friendId, action, now) EXCEPT !.id = Len(logs)]]

\* friendship_logs.insert([...])
InsertLog(logs, userId, friendId, action, now) ==
  Append(logs, LogRow(logs, userId, friendId, action, now))

\* friendship_logs.select('*').order('created_at', descending): every
\* order of the rows in which created_at never increases
OrderedLogs(logs) ==
  {[i \in 1..Len(logs) |-> logs[f[i]]] :
     f \in {g \in [1..Len(logs) -> 1..Len(logs)] :
              /\ \A i, j \in 1..Len(logs) : i # j => g[i] # g[j]
              /\ \A i \in 1..(Len(logs) - 1) :
                   logs[g[i]].created_at >= logs[g[i + 1]].created_at}}

\* mutant: the updater always takes the first loaded profile
NextSelectedLogUserIdFirst(current, data) ==
  IF Len(data) > 0 THEN data[1] ELSE NULL

\* the updater handed to setSelectedLogUserId in loadData
NextSelectedLogUserId(current, data) ==
  IF Len(data) > 0
  THEN IF current # NULL /\ current \in Range(data) THEN current ELSE data[1]
  ELSE NULL

\* mutant: only the user_a_id side of a friendship gets its friend
FriendsInOneSided(rows, profs, userId) ==
  LET act == SelectSeq(rows, LAMBDA f :
                 /\ f.ended_at = NULL
                 /\ f.user_a_id \in Range(profs)
                 /\ f.user_b_id \in Range(profs)
                 /\ f.user_a_id = userId)
  IN [i \in 1..Len(act) |-> act[i].user_b_id]

\* activeFriendMap.get(userId) || [], over the given rows and profiles
FriendsIn(rows, profs, userId) ==
  LET act == SelectSeq(rows, LAMBDA f :
                 /\ f.ended_at = NULL
                 /\ f.user_a_id \in Range(profs)
                 /\ f.user_b_id \in Range(profs)
                 /\ (f.user_a_id = userId \/ f.user_b_id = userId))
  IN [i \in 1..Len(act) |->
        IF act[i].user_a_id = userId THEN act[i].user_b_id ELSE act[i].user_a_id]

getFriendsForUser(userId) == FriendsIn(friendships, profiles, userId)

\* Array.prototype.sort with the comparator
\* new Date(b.created_at).getTime() - new Date(a.created_at).getTime():
\* a stable sort, newest first; entries that compare equal keep the order
\* they had in the array
RECURSIVE InsertByCreatedAt(_, _)
InsertByCreatedAt(sorted, x) ==
  IF sorted = <<>> THEN <<x>>
  ELSE IF Head(sorted).created_at >= x.created_at
       THEN <<Head(sorted)>> \o InsertByCreatedAt(Tail(sorted), x)
       ELSE <<x>> \o sorted

RECURSIVE SortByCreatedAtDesc(_)
SortByCreatedAtDesc(s) ==
  IF s = <<>> THEN <<>>
  ELSE InsertByCreatedAt(SortByCreatedAtDesc(SubSeq(s, 1, Len(s) - 1)), s[Len(s)])

\* friendshipLogs.filter(...).sort(...) of selectedUserLogs
LogsFor(logs, userId) ==
  SortByCreatedAtDesc(
    SelectSeq(logs, LAMBDA l : l.user_a_id = userId \/ l.user_b_id = userId))

selectedUserLogs ==
  IF selectedLogUserId = NULL THEN <<>>
  ELSE LogsFor(friendshipLogs, selectedLogUserId)

\* currentFriendList, as the set of ids it lists
currentFriendList ==
  IF friendManagerUser = NULL THEN {}
  ELSE Range(getFriendsForUser(friendManagerUser))

\* availableFriendOptions with an empty search term, as the set of ids it lists
availableFriendOptions ==
  IF friendManagerUser = NULL THEN {}
  ELSE {q \in Range(profiles) : q # friendManagerUser /\ q \notin currentFriendList}

\* ---------------------------------------------------------- frames
IdleFrame ==
  [pc |-> "idle", op |-> "none", userId |-> NULL, friendId |-> NULL,
   now |-> NULL, existing |-> NULL, calls |-> <<>>, outcome |-> "none"]

\* one store call of an invocation and whether it came back without error
Call(t, ok) == [t |-> t, ok |-> ok]

InFlight(p) == inv[p].pc \notin {"idle", "done"}
NoneDone == \A p \in Procs : inv[p].pc # "done"

\* the handler of p shows its toast and returns
Return(p, outcome, calls) ==
  inv' = [inv EXCEPT ![p].pc = "done", ![p].outcome = outcome, ![p].calls = calls]

\* the state updates of loadData, given which of the three queries failed
LoadData(profilesError, friendshipsError, logsError) ==
  /\ profiles' = IF profilesError THEN profiles ELSE dbProfiles
  /\ selectedLogUserId' =
       IF profilesError THEN selectedLogUserId
       ELSE NextSelectedLogUserId(selectedLogUserId, dbProfiles)
  /\ friendships' = IF friendshipsError THEN friendships ELSE dbFriendships
  /\ IF logsError THEN friendshipLogs' = friendshipLogs
     ELSE friendshipLogs' \in OrderedLogs(dbFriendshipLogs)

\* ------------------------------------------------------------- Init
Init ==
  /\ dbProfiles = InitialProfiles
  /\ dbFriendships = <<>>
  /\ dbFriendshipLogs = <<>>
  /\ clock = 1
  /\ profiles = <<>>
  /\ friendships = <<>>
  /\ friendshipLogs = <<>>
  /\ loading = TRUE
  /\ friendManagerUser = NULL
  /\ selectedLogUserId = NULL
  /\ inv = [p \in Procs |-> IdleFrame]
  /\ started = 0
  /\ overlapped = FALSE
  /\ history = <<>>

\* useEffect(() => { loadData(true) }, [])
Mount ==
  /\ loading = TRUE
  /\ \E pe, fe, le \in BOOLEAN : LoadData(pe, fe, le)
  /\ loading' = FALSE
  /\ UNCHANGED <<dbVars, clock, friendManagerUser, inv, started, overlapped, history>>

handleManageFriends(user) ==
  /\ loading = FALSE /\ NoneDone
  /\ user \in Range(profiles)
  /\ friendManagerUser' = user
  /\ UNCHANGED <<dbVars, clock, uiVars, loading, inv, started, overlapped, history>>

\* handleFriendDialogChange(false)
handleFriendDialogChange ==
  /\ loading = FALSE /\ NoneDone
  /\ friendManagerUser # NULL
  /\ friendManagerUser' = NULL
  /\ UNCHANGED <<dbVars, clock, uiVars, loading, inv, started, overlapped, history>>

\* onValueChange of the log card's Select
SelectLogUser(value) ==
  /\ loading = FALSE /\ NoneDone
  /\ value \in Range(profiles)
  /\ selectedLogUserId' = value
  /\ UNCHANGED <<dbVars, clock, profiles, friendships, friendshipLogs, loading,
                 friendManagerUser, inv, started, overlapped, history>>

\* new Date().toISOString(): the clock may have advanced since the last read
ReadClock(t) == t \in {clock, clock + 1} /\ t <= MaxClock /\ clock' = t

\* entry of either handler, up to its first await; the buttons that call the
\* handlers are rendered only while friendManagerUser is set.  The invocation
\* takes the first free slot.
Enter(p, op, friendId) ==
  /\ loading = FALSE /\ NoneDone
  /\ inv[p].pc = "idle"
  /\ \A q \in Procs : q < p => InFlight(q)
  /\ friendManagerUser # NULL
  /\ started < MaxOps
  /\ started' = started + 1
  /\ IF \E q \in Procs : InFlight(q)
     THEN overlapped' = TRUE /\ history' = <<>>
     ELSE UNCHANGED <<overlapped, history>>
  /\ UNCHANGED <<dbVars, uiVars, loading, friendManagerUser>>

Frame(op, friendId) ==
  [IdleFrame EXCEPT !.op = op, !.userId = friendManagerUser, !.friendId = friendId]

\* ------------------------------------------------- handleAddFriend
handleAddFriend(p, friendId) ==
  /\ Enter(p, "add", friendId)
  /\ IF IsSelfPair(friendManagerUser, friendId)
     THEN /\ inv' = [inv EXCEPT ![p] = [Frame("add", friendId) EXCEPT
                                          !.pc = "done", !.outcome = "rejected"]]
          /\ UNCHANGED clock
     ELSE \E t \in 1..MaxClock :
            /\ ReadClock(t)
            /\ inv' = [inv EXCEPT ![p] = [Frame("add", friendId) EXCEPT
                                            !.pc = "lookup", !.now = t]]

\* mutant: existingError is not checked, an error reads as "no row"
AddLookupUnchecked(p) ==
  LET fr == inv[p] IN
  /\ fr.pc = "lookup" /\ fr.op = "add" /\ NoneDone
  /\ \/ inv' = [inv EXCEPT ![p].pc = "write", ![p].existing = NULL,
                           ![p].calls = Append(fr.calls, Call("select", FALSE))]
     \/ \E e \in AddExisting(dbFriendships, fr.userId, fr.friendId) :
          IF AlreadyFriends(dbFriendships, e)
          THEN Return(p, "already", Append(fr.calls, Call("select", TRUE)))
          ELSE inv' = [inv EXCEPT ![p].pc = "write", ![p].existing = e,
                                  ![p].calls = Append(fr.calls, Call("select", TRUE))]
  /\ UNCHANGED <<dbVars, clock, uiVars, loading, friendManagerUser, started,
                 overlapped, history>>

\* the existing-pair select and the branch on its result
AddLookup(p) ==
  LET fr == inv[p] IN
  /\ fr.pc = "lookup" /\ fr.op = "add" /\ NoneDone
  /\ \/ Return(p, "failure", Append(fr.calls, Call("select", FALSE)))
     \/ \E e \in AddExisting(dbFriendships, fr.userId, fr.friendId) :
          IF AlreadyFriends(dbFriendships, e)
          THEN Return(p, "already", Append(fr.calls, Call("select", TRUE)))
          ELSE inv' = [inv EXCEPT ![p].pc = "write", ![p].existing = e,
                                  ![p].calls = Append(fr.calls, Call("select", TRUE))]
  /\ UNCHANGED <<dbVars, clock, uiVars, loading, friendManagerUser, started,
                 overlapped, history>>

\* mutant: a new row is inserted even when the lookup found one
AddWriteAlwaysInsert(rows, fr) == InsertRow(rows, fr.userId, fr.friendId, fr.now)

\* mutant: the update of an existing row leaves its ended_at in place
AddWriteKeepsEnded(rows, fr) ==
  IF fr.existing # NULL
  THEN [rows EXCEPT ![fr.existing].started_at = fr.now]
  ELSE InsertRow(rows, fr.userId, fr.friendId, fr.now)

\* the table after the friendships write of handleAddFriend
AddWrite(rows, fr) ==
  IF fr.existing # NULL
  THEN ReactivateRow(rows, fr.existing, fr.now)
  ELSE InsertRow(rows, fr.userId, fr.friendId, fr.now)

AddWriteCall(fr) == IF fr.existing # NULL THEN "update" ELSE "insert"

\* mutant: updateError / insertError is not checked
AddWriteStepUnchecked(p) ==
  LET fr == inv[p] IN
  /\ fr.pc = "write" /\ fr.op = "add" /\ NoneDone
  /\ \/ /\ inv' = [inv EXCEPT ![p].pc = "log",
                              ![p].calls = Append(fr.calls, Call(AddWriteCall(fr), FALSE))]
        /\ UNCHANGED dbFriendships
     \/ /\ dbFriendships' = AddWrite(dbFriendships, fr)
        /\ inv' = [inv EXCEPT ![p].pc = "log",
                              ![p].calls = Append(fr.calls, Call(AddWriteCall(fr), TRUE))]
  /\ UNCHANGED <<dbProfiles, dbFriendshipLogs, clock, uiVars, loading, friendManagerUser, started,
                 overlapped, history>>

\* the update or insert of the friendships row
AddWriteStep(p) ==
  LET fr == inv[p] IN
  /\ fr.pc = "write" /\ fr.op = "add" /\ NoneDone
  /\ \/ /\ Return(p, "failure", Append(fr.calls, Call(AddWriteCall(fr), FALSE)))
        /\ UNCHANGED dbFriendships
     \/ /\ dbFriendships' = AddWrite(dbFriendships, fr)
        /\ inv' = [inv EXCEPT ![p].pc = "log",
                              ![p].calls = Append(fr.calls, Call(AddWriteCall(fr), TRUE))]
  /\ UNCHANGED <<dbProfiles, dbFriendshipLogs, clock, uiVars, loading, friendManagerUser, started,
                 overlapped, history>>

\* ---------------------------------------------- handleRemoveFriend
handleRemoveFriend(p, friendId) ==
  /\ Enter(p, "remove", friendId)
  /\ \E t \in 1..MaxClock :
       /\ ReadClock(t)
       /\ inv' = [inv EXCEPT ![p] = [Frame("remove", friendId) EXCEPT
                                       !.pc = "lookup", !.now = t]]

\* the active-row select and the branch on its result
RemoveLookup(p) ==
  LET fr == inv[p] IN
  /\ fr.pc = "lookup" /\ fr.op = "remove" /\ NoneDone
  /\ \/ Return(p, "failure", Append(fr.calls, Call("select", FALSE)))
     \/ /\ ~RemoveLookupFails(dbFriendships, fr.userId, fr.friendId)
        /\ LET e == RemoveExisting(dbFriendships, fr.userId, fr.friendId)
           IN IF e = NULL
              THEN Return(p, "notfriends", Append(fr.calls, Call("select", TRUE)))
              ELSE inv' = [inv EXCEPT ![p].pc = "write", ![p].existing = e,
                                      ![p].calls = Append(fr.calls, Call("select", TRUE))]
  /\ UNCHANGED <<dbVars, clock, uiVars, loading, friendManagerUser, started,
                 overlapped, history>>

\* mutant: updateError is not checked
RemoveWriteStepUnchecked(p) ==
  LET fr == inv[p] IN
  /\ fr.pc = "write" /\ fr.op = "remove" /\ NoneDone
  /\ \/ /\ inv' = [inv EXCEPT ![p].pc = "log",
                              ![p].calls = Append(fr.calls, Call("update", FALSE))]
        /\ UNCHANGED dbFriendships
     \/ /\ dbFriendships' = EndRow(dbFriendships, fr.existing, fr.now)
        /\ inv' = [inv EXCEPT ![p].pc = "log",
                              ![p].calls = Append(fr.calls, Call("update", TRUE))]
  /\ UNCHANGED <<dbProfiles, dbFriendshipLogs, clock, uiVars, loading, friendManagerUser, started,
                 overlapped, history>>

\* the update that sets ended_at
RemoveWriteStep(p) ==
  LET fr == inv[p] IN
  /\ fr.pc = "write" /\ fr.op = "remove" /\ NoneDone
  /\ \/ /\ Return(p, "failure", Append(fr.calls, Call("update", FALSE)))
        /\ UNCHANGED dbFriendships
     \/ /\ dbFriendships' = EndRow(dbFriendships, fr.existing, fr.now)
        /\ inv' = [inv EXCEPT ![p].pc = "log",
                              ![p].calls = Append(fr.calls, Call("update", TRUE))]
  /\ UNCHANGED <<dbProfiles, dbFriendshipLogs, clock, uiVars, loading, friendManagerUser, started,
                 overlapped, history>>

\* ------------------------------------- the tail both handlers share
\* mutant: every log row is written with action 'started'
LogActionAlwaysStarted(fr) == "started"

LogAction(fr) == IF fr.op = "add" THEN "started" ELSE "ended"

\* friendship_logs.insert, then the success toast
LogStep(p) ==
  LET fr == inv[p] IN
  /\ fr.pc = "log" /\ NoneDone
  /\ \/ /\ Return(p, "failure", Append(fr.calls, Call("log", FALSE)))
        /\ UNCHANGED dbFriendshipLogs
     \/ /\ dbFriendshipLogs' =
             InsertLog(dbFriendshipLogs, fr.userId, fr.friendId, LogAction(fr), fr.now)
        /\ inv' = [inv EXCEPT ![p].pc = "reload", ![p].outcome = "success",
                              ![p].calls = Append(fr.calls, Call("log", TRUE))]
  /\ UNCHANGED <<dbProfiles, dbFriendships, clock, uiVars, loading, friendManagerUser, started,
                 overlapped, history>>

\* the record of a returned invocation
Returned(fr, outcome, calls) ==
  [op |-> fr.op, userId |-> fr.userId, friendId |-> fr.friendId,
   outcome |-> outcome, calls |-> calls]

Record(entry) ==
  history' = IF overlapped THEN <<>> ELSE Append(history, entry)

\* await loadData(), after which the handler returns
ReloadStep(p) ==
  LET fr == inv[p] IN
  /\ fr.pc = "reload" /\ NoneDone
  /\ \E pe, fe, le \in BOOLEAN :
       /\ LoadData(pe, fe, le)
       /\ Record(Returned(fr, "success",
                          Append(fr.calls, Call("load", ~(pe \/ fe \/ le)))))
  /\ inv' = [inv EXCEPT ![p] = IdleFrame]
  /\ UNCHANGED <<dbVars, clock, loading, friendManagerUser, started, overlapped>>

\* a handler that returned without reloading: the caller has its result and
\* the slot is free again
Finish(p) ==
  LET fr == inv[p] IN
  /\ fr.pc = "done"
  /\ inv' = [inv EXCEPT ![p] = IdleFrame]
  /\ Record(Returned(fr, fr.outcome, fr.calls))
  /\ UNCHANGED <<dbVars, clock, uiVars, loading, friendManagerUser, started, overlapped>>

\* ------------------------------------------ profiles and loadData
\* entry of a handler that writes the profiles table
EnterProfileOp(p) ==
  /\ loading = FALSE /\ NoneDone
  /\ inv[p].pc = "idle"
  /\ \A q \in Procs : q < p => InFlight(q)
  /\ started < MaxOps
  /\ started' = started + 1
  /\ IF \E q \in Procs : InFlight(q)
     THEN overlapped' = TRUE /\ history' = <<>>
     ELSE UNCHANGED <<overlapped, history>>
  /\ UNCHANGED <<dbFriendships, dbFriendshipLogs, clock, uiVars, loading,
                 friendManagerUser>>

\* the delete button of a profile card: delete, then await loadData()
handleDeleteUser(p, userId) ==
  /\ EnterProfileOp(p)
  /\ userId \in Range(profiles)
  /\ \/ /\ inv' = [inv EXCEPT ![p] = [IdleFrame EXCEPT
                      !.pc = "done", !.op = "delete", !.userId = userId,
                      !.outcome = "failure", !.calls = <<Call("delete", FALSE)>>]]
        /\ UNCHANGED dbProfiles
     \/ /\ dbProfiles' = SelectSeq(dbProfiles, LAMBDA id : id # userId)
        /\ inv' = [inv EXCEPT ![p] = [IdleFrame EXCEPT
                      !.pc = "reload", !.op = "delete", !.userId = userId,
                      !.outcome = "success", !.calls = <<Call("delete", TRUE)>>]]

\* handleSave of the profile form, then onUserSaved -> loadData(): user is the
\* profile being edited (update) or NULL (insert of a new profile, which the
\* store gives an id not in the table; the newest profile comes first)
handleSave(p, user, newId) ==
  /\ EnterProfileOp(p)
  /\ IF user # NULL THEN user \in Range(profiles) /\ newId = NULL
     ELSE newId \in ProfileIds \ Range(dbProfiles)
  /\ \/ /\ inv' = [inv EXCEPT ![p] = [IdleFrame EXCEPT
                      !.pc = "done", !.op = "save", !.userId = user,
                      !.outcome = "failure",
                      !.calls = <<Call(IF user # NULL THEN "update" ELSE "insert", FALSE)>>]]
        /\ UNCHANGED dbProfiles
     \/ /\ dbProfiles' = IF user # NULL THEN dbProfiles ELSE <<newId>> \o dbProfiles
        /\ inv' = [inv EXCEPT ![p] = [IdleFrame EXCEPT
                      !.pc = "reload", !.op = "save", !.userId = user,
                      !.outcome = "success",
                      !.calls = <<Call(IF user # NULL THEN "update" ELSE "insert", TRUE)>>]]

\* a store that holds some profiles and no friendships yet
InitProfiles ==
  /\ dbProfiles \in ProfileTables
  /\ dbFriendships = <<>>
  /\ dbFriendshipLogs = <<>>
  /\ clock = 1
  /\ profiles = <<>>
  /\ friendships = <<>>
  /\ friendshipLogs = <<>>
  /\ loading = TRUE
  /\ friendManagerUser = NULL
  /\ selectedLogUserId = NULL
  /\ inv = [p \in Procs |-> IdleFrame]
  /\ started = 0
  /\ overlapped = FALSE
  /\ history = <<>>

NextProfiles ==
  \/ Mount
  \/ \E v \in ProfileIds : SelectLogUser(v)
  \/ \E p \in Procs, u \in ProfileIds : handleDeleteUser(p, u)
  \/ \E p \in Procs, u \in ProfileIds \cup {NULL}, n \in ProfileIds \cup {NULL} :
       handleSave(p, u, n)
  \/ \E p \in Procs : ReloadStep(p)
  \/ \E p \in Procs : Finish(p)

SpecProfiles == InitProfiles /\ [][NextProfiles]_vars

\* ----------------------------------------------------------- Next
Next ==
  \/ Mount
  \/ \E u \in ProfileIds : handleManageFriends(u)
  \/ handleFriendDialogChange
  \/ \E p \in Procs, f \in ProfileIds : handleAddFriend(p, f)
  \/ \E p \in Procs, f \in ProfileIds : handleRemoveFriend(p, f)
  \/ \E p \in Procs : AddLookup(p)
  \/ \E p \in Procs : AddWriteStep(p)
  \/ \E p \in Procs : RemoveLookup(p)
  \/ \E p \in Procs : RemoveWriteStep(p)
  \/ \E p \in Procs : LogStep(p)
  \/ \E p \in Procs : ReloadStep(p)
  \/ \E p \in Procs : Finish(p)

Spec == Init /\ [][Next]_vars

\* ============================================================ claims
AllIdle == \A p \in Procs : inv[p].pc = "idle"
Last(s) == s[Len(s)]

\* rows (of either table) that belong to the unordered pair {x, y}
OfPair(rows, x, y) ==
  {i \in 1..Len(rows) : {rows[i].user_a_id, rows[i].user_b_id} = {x, y}}

ActiveOfPair(x, y) ==
  {i \in OfPair(dbFriendships, x, y) : dbFriendships[i].ended_at = NULL}

\* the actions logged for the pair, in append order
PairLogActions(x, y) ==
  LET sel == SelectSeq(dbFriendshipLogs,
                       LAMBDA l : {l.user_a_id, l.user_b_id} = {x, y})
  IN [i \in 1..Len(sel) |-> sel[i].action]

\* the invocation of p takes a step
Steps(p) == inv'[p] # inv[p]

\* a returned invocation wrote a friendships row
WroteOk(e) ==
  \E k \in 1..Len(e.calls) : e.calls[k].t \in {"insert", "update"} /\ e.calls[k].ok

SameCall(e, f) == e.userId = f.userId /\ e.friendId = f.friendId

\* C1: in every reachable state the friendships table holds at most one row
\* for each unordered pair of profiles.
C1_OneRowPerPair ==
  \A x, y \in ProfileIds : Cardinality(OfPair(dbFriendships, x, y)) <= 1

\* C2: when Connect(A,B) is immediately followed by Connect(A,B), neither
\* failing and nothing in between, the second call only selects (no friendships
\* write, no log insert) and reports "already friends", and once it has
\* returned exactly one friendships row of the pair is active.
C2_ConnectTwice ==
  \A i \in 1..(Len(history) - 1) :
    LET a == history[i]
        b == history[i + 1]
    IN (/\ a.op = "add" /\ b.op = "add" /\ SameCall(a, b)
        /\ a.userId # a.friendId
        /\ a.outcome # "failure" /\ b.outcome # "failure")
       => /\ b.outcome = "already"
          /\ b.calls = <<Call("select", TRUE)>>
          /\ (i + 1 = Len(history) /\ AllIdle)
               => Cardinality(ActiveOfPair(a.userId, a.friendId)) = 1

C2_Witness ==
  /\ AllIdle
  /\ Len(history) = 2
  /\ history[1].op = "add" /\ history[1].outcome = "success"
  /\ history[2].op = "add" /\ history[2].outcome = "already"
  /\ SameCall(history[1], history[2])

\* C3: for Connect(A,B); Disconnect(A,B); Connect(A,B) without overlap and
\* without failure, starting from no row for the pair: after each of the three
\* calls the pair has exactly one friendships row, every call succeeds, the
\* third call updates instead of inserting, and the pair's log reads started,
\* ended, started.
C3_Ops == <<"add", "remove", "add">>
C3_Log == <<"started", "ended", "started">>

C3_ConnectDisconnectConnect ==
  \A i \in 1..Len(history), k \in 1..3 :
    LET a == history[i] IN
    (/\ i + k - 1 = Len(history) /\ AllIdle
     /\ a.userId # a.friendId
     /\ \A j \in 1..(i - 1) :
          {history[j].userId, history[j].friendId} = {a.userId, a.friendId}
            => ~WroteOk(history[j])
     /\ \A m \in 0..(k - 1) :
          /\ history[i + m].op = C3_Ops[m + 1]
          /\ SameCall(history[i + m], a)
          /\ history[i + m].outcome # "failure")
    => /\ Cardinality(OfPair(dbFriendships, a.userId, a.friendId)) = 1
       /\ PairLogActions(a.userId, a.friendId) = SubSeq(C3_Log, 1, k)
       /\ \A m \in 0..(k - 1) : history[i + m].outcome = "success"
       /\ a.calls[2] = Call("insert", TRUE)
       /\ k = 3 => history[i + 2].calls[2] = Call("update", TRUE)

C3_Witness ==
  /\ AllIdle
  /\ Len(history) = 3
  /\ \A m \in 1..3 :
       /\ history[m].op = C3_Ops[m]
       /\ history[m].outcome = "success"
       /\ SameCall(history[m], history[1])
  /\ Len(dbFriendships) = 1
  /\ Len(dbFriendshipLogs) = 3

\* the entry of a handler, up to its first await, writes to neither table
EntryWritesNothing(p) == (inv[p].pc = "idle" /\ Steps(p)) => UNCHANGED dbVars

\* C4: a Disconnect whose lookup comes back without error while the store
\* holds no active row for the pair returns "not friends" right there; neither
\* its entry nor its lookup changes either table.
C4_DisconnectNotFriends ==
  [][\A p \in Procs :
       /\ EntryWritesNothing(p)
       /\ (/\ inv[p].pc = "lookup" /\ inv[p].op = "remove"
           /\ ActiveOfPair(inv[p].userId, inv[p].friendId) = {}
           /\ Steps(p)
           /\ Last(inv'[p].calls).ok)
          => /\ inv'[p].pc = "done"
             /\ inv'[p].outcome = "notfriends"
             /\ inv'[p].calls = <<Call("select", TRUE)>>
             /\ UNCHANGED dbVars]_vars

\* a Disconnect has returned "not friends" for a pair that never had a row
C4_Witness ==
  \E p \in Procs :
    /\ inv[p].pc = "done" /\ inv[p].op = "remove"
    /\ inv[p].outcome = "notfriends"
    /\ OfPair(dbFriendships, inv[p].userId, inv[p].friendId) = {}

\* C5: a Connect whose other id is the actor's own id returns "rejected" from
\* its entry, having issued no store call and with both tables unchanged.
C5_SelfRejected ==
  [][\A p \in Procs :
       (/\ Steps(p)
        /\ inv'[p].op = "add"
        /\ inv'[p].userId = inv'[p].friendId)
       => /\ inv'[p].pc = "done"
          /\ inv'[p].outcome = "rejected"
          /\ inv'[p].calls = <<>>
          /\ UNCHANGED dbVars]_vars

C5_Witness ==
  \E p \in Procs :
    /\ inv[p].pc = "done" /\ inv[p].op = "add"
    /\ inv[p].userId = inv[p].friendId
    /\ inv[p].outcome = "rejected"

\* C6: after a Connect(A,B) on distinct profiles has returned success and its
\* reload came back without error, the read model lists B among the friends
\* of A and A among the friends of B.
C6_ConnectThenFriends ==
  Len(history) > 0 =>
    LET e == Last(history) IN
    (/\ e.op = "add" /\ e.outcome = "success"
     /\ Last(e.calls) = Call("load", TRUE))
    => /\ e.friendId \in Range(getFriendsForUser(e.userId))
       /\ e.userId \in Range(getFriendsForUser(e.friendId))

C6_Witness ==
  /\ Len(history) > 0
  /\ Last(history).op = "add" /\ Last(history).outcome = "success"
  /\ Last(Last(history).calls) = Call("load", TRUE)
  /\ Last(history).friendId \in Range(getFriendsForUser(Last(history).userId))

\* C7: a lookup that comes back without error while the pair has exactly one
\* row resolves to that row whichever way round the two ids were passed:
\* Connect either reports "already friends" (the row is active) or goes on to
\* update that row, Disconnect either reports "not friends" (the row is ended)
\* or goes on to update that row; so neither ever goes on to insert.
C7_OrderIndependentLookup ==
  [][\A p \in Procs :
       (/\ inv[p].pc = "lookup"
        /\ Steps(p)
        /\ Last(inv'[p].calls).ok
        /\ Cardinality(OfPair(dbFriendships, inv[p].userId, inv[p].friendId)) = 1)
       => LET r == CHOOSE i \in OfPair(dbFriendships, inv[p].userId, inv[p].friendId) : TRUE
              active == dbFriendships[r].ended_at = NULL
          IN IF (inv[p].op = "add") = active
             THEN /\ inv'[p].pc = "done"
                  /\ inv'[p].outcome = IF active THEN "already" ELSE "notfriends"
             ELSE /\ inv'[p].pc = "write"
                  /\ inv'[p].existing = r]_vars

\* a Connect passed the ids the other way round than the row stores them has
\* found the ended row
C7_Witness ==
  \E p \in Procs :
    /\ inv[p].pc = "write" /\ inv[p].op = "add"
    /\ inv[p].existing # NULL
    /\ dbFriendships[inv[p].existing].user_a_id = inv[p].friendId
    /\ dbFriendships[inv[p].existing].user_b_id = inv[p].userId
    /\ Len(dbFriendships) = 1

\* the row the friendships write of a frame produced, as the write left it
WrittenRowStands(rows, fr) ==
  IF fr.op = "remove"
  THEN rows[fr.existing].ended_at = fr.now
  ELSE \E i \in OfPair(rows, fr.userId, fr.friendId) :
         /\ rows[i].started_at = fr.now /\ rows[i].ended_at = NULL
         /\ fr.existing # NULL => i = fr.existing

\* C8: the log insert is attempted only after the friendships write came back
\* without error; when the log insert then fails the handler returns failure,
\* nothing is rolled back (the written row stands) and no log row is added.
C8_WriteBeforeLog ==
  [][\A p \in Procs :
       /\ (inv[p].pc = "log" /\ Steps(p))
            => /\ Last(inv[p].calls).t \in {"insert", "update"}
               /\ Last(inv[p].calls).ok
       /\ (inv[p].pc = "log" /\ Steps(p) /\ ~Last(inv'[p].calls).ok)
            => /\ inv'[p].pc = "done"
               /\ inv'[p].outcome = "failure"
               /\ UNCHANGED dbVars
               /\ ~overlapped => WrittenRowStands(dbFriendships', inv[p])]_vars

\* a Connect has returned failure from the log insert; its row is in the
\* table and the log is empty
C8_Witness ==
  \E p \in Procs :
    /\ inv[p].pc = "done" /\ inv[p].op = "add"
    /\ inv[p].outcome = "failure"
    /\ Last(inv[p].calls) = Call("log", FALSE)
    /\ ActiveOfPair(inv[p].userId, inv[p].friendId) # {}
    /\ dbFriendshipLogs = <<>>

\* C9: when the friendships insert or update fails the handler returns
\* failure without attempting the log insert; no step of the invocation, from
\* its entry to the failed write, changes either table.
C9_WriteFailureAborts ==
  [][\A p \in Procs :
       /\ EntryWritesNothing(p)
       /\ (inv[p].pc = "lookup" /\ Steps(p)) => UNCHANGED dbVars
       /\ (/\ inv[p].pc = "write"
           /\ Steps(p)
           /\ ~Last(inv'[p].calls).ok)
          => /\ inv'[p].pc = "done"
             /\ inv'[p].outcome = "failure"
             /\ Len(inv'[p].calls) = 2
             /\ UNCHANGED dbVars]_vars

\* a Disconnect has returned failure from its update; the row is still active
C9_Witness ==
  \E p \in Procs :
    /\ inv[p].pc = "done" /\ inv[p].op = "remove"
    /\ inv[p].outcome = "failure"
    /\ inv[p].calls = <<Call("select", TRUE), Call("update", FALSE)>>
    /\ dbFriendships[inv[p].existing].ended_at = NULL

\* C10: when the existing-pair lookup reports an error the handler returns
\* failure at once: the failed select is its only store call, and neither its
\* entry nor the lookup changes either table.
C10_LookupFailureAborts ==
  [][\A p \in Procs :
       /\ EntryWritesNothing(p)
       /\ (/\ inv[p].pc = "lookup"
           /\ Steps(p)
           /\ ~Last(inv'[p].calls).ok)
          => /\ inv'[p].pc = "done"
             /\ inv'[p].outcome = "failure"
             /\ inv'[p].calls = <<Call("select", FALSE)>>
             /\ UNCHANGED dbVars]_vars

C10_Witness ==
  \E p \in Procs :
    /\ inv[p].pc = "done"
    /\ inv[p].outcome = "failure"
    /\ inv[p].calls = <<Call("select", FALSE)>>

\* the outcomes with which a handler returns without having written anything
NoOpOutcomes == {"already", "notfriends", "rejected"}

\* successful invocations among the returned ones and among those in flight
SuccessCount(h) == Cardinality({i \in 1..Len(h) : h[i].outcome = "success"})
SuccessInFlight == Cardinality({p \in Procs : inv[p].outcome = "success"})

\* C11: the step in which an invocation reports success appends exactly one
\* friendship_logs row, with user_a_id the actor and user_b_id the other id as
\* the caller passed them and action started (Connect) or ended (Disconnect);
\* an invocation that returns "already friends", "not friends" or "rejected"
\* has made no log insert; the log never changes in any other step.  Hence,
\* as long as invocations do not overlap, the length of the log is the number
\* of invocations that reported success.
C11_OneLogPerSuccess ==
  /\ [](~overlapped =>
          Len(dbFriendshipLogs) = SuccessCount(history) + SuccessInFlight)
  /\ [][/\ \A p \in Procs :
             /\ (Steps(p) /\ inv'[p].outcome = "success")
                  => /\ Len(dbFriendshipLogs') = Len(dbFriendshipLogs) + 1
                     /\ SubSeq(dbFriendshipLogs', 1, Len(dbFriendshipLogs))
                          = dbFriendshipLogs
                     /\ Last(dbFriendshipLogs').user_a_id = inv[p].userId
                     /\ Last(dbFriendshipLogs').user_b_id = inv[p].friendId
                     /\ Last(dbFriendshipLogs').action =
                          (IF inv[p].op = "add" THEN "started" ELSE "ended")
             /\ (Steps(p) /\ inv'[p].outcome \in NoOpOutcomes)
                  => /\ \A k \in 1..Len(inv'[p].calls) : inv'[p].calls[k].t # "log"
                     /\ UNCHANGED dbFriendshipLogs
        /\ dbFriendshipLogs' # dbFriendshipLogs
             => \E p \in Procs : Steps(p) /\ inv'[p].outcome = "success"]_vars

\* a Disconnect by the larger id has reported success: its log row keeps the
\* caller's orientation while the friendships row is stored the other way round
C11_Witness ==
  \E p \in Procs :
    /\ inv[p].pc = "reload" /\ inv[p].op = "remove"
    /\ inv[p].userId > inv[p].friendId
    /\ Last(dbFriendshipLogs).user_a_id = inv[p].userId
    /\ Last(dbFriendshipLogs).user_b_id = inv[p].friendId
    /\ Last(dbFriendshipLogs).action = "ended"
    /\ dbFriendships[inv[p].existing].user_a_id = inv[p].friendId
    /\ ~overlapped /\ Len(dbFriendshipLogs) = 2

\* C12: no step removes or changes a friendship_logs row, and no step removes
\* a friendships row or changes its id: the log only grows at its end, and
\* Disconnect leaves the row in place with ended_at set.
C12_AppendOnly ==
  [][/\ Len(dbFriendshipLogs') >= Len(dbFriendshipLogs)
     /\ \A i \in 1..Len(dbFriendshipLogs) :
          dbFriendshipLogs'[i] = dbFriendshipLogs[i]
     /\ {dbFriendships[i].id : i \in 1..Len(dbFriendships)}
          \subseteq {dbFriendships'[i].id : i \in 1..Len(dbFriendships')}]_vars

\* a Disconnect has written and logged: the row is still there, ended, and the
\* log row of the earlier Connect stands before the new one
C12_Witness ==
  \E p \in Procs :
    /\ inv[p].pc = "reload" /\ inv[p].op = "remove"
    /\ dbFriendships[inv[p].existing].ended_at = inv[p].now
    /\ Len(dbFriendshipLogs) = 2
    /\ dbFriendshipLogs[1].action = "started"
    /\ dbFriendshipLogs[2].action = "ended"

\* the loaded log rows that name the profile
LoadedLogsOf(u) ==
  {l \in Range(friendshipLogs) : l.user_a_id = u \/ l.user_b_id = u}

\* the last three returned invocations are Connect, Disconnect, Connect on the
\* same arguments, all successful, on a pair that had no row before them, and
\* the reload of the last one came back without error
ConnectDisconnectConnectReturned ==
  /\ AllIdle /\ Len(history) >= 3
  /\ LET n == Len(history)
         a == history[n - 2]
     IN /\ a.userId # a.friendId
        /\ \A m \in 0..2 :
             /\ history[n - 2 + m].op = C3_Ops[m + 1]
             /\ SameCall(history[n - 2 + m], a)
             /\ history[n - 2 + m].outcome = "success"
        /\ Last(history[n].calls) = Call("load", TRUE)
        /\ \A j \in 1..(n - 3) :
             {history[j].userId, history[j].friendId} = {a.userId, a.friendId}
               => ~WroteOk(history[j])

\* C13: for every profile, LogsFor returns exactly the loaded log rows that
\* name it, newest first; and once Connect(A,B), Disconnect(A,B), Connect(A,B)
\* have returned and the log card shows A, the list is the three rows of the
\* pair in the order started (of the second Connect), ended, started (of the
\* first Connect).
C13_LogsFor ==
  /\ \A u \in ProfileIds :
       LET r == LogsFor(friendshipLogs, u) IN
       /\ Range(r) = LoadedLogsOf(u)
       /\ Len(r) = Cardinality(LoadedLogsOf(u))
       /\ \A i \in 1..(Len(r) - 1) : r[i].created_at >= r[i + 1].created_at
  /\ (ConnectDisconnectConnectReturned
      /\ selectedLogUserId = Last(history).userId)
     => /\ Len(selectedUserLogs) = 3
        /\ [i \in 1..3 |-> selectedUserLogs[i].action] = <<"started", "ended", "started">>
        /\ selectedUserLogs[1].id > selectedUserLogs[2].id
        /\ selectedUserLogs[2].id > selectedUserLogs[3].id

\* adjacent rows with the same created_at are ordered by id, one way...
TiesByIdDescending(r) ==
  \A i \in 1..(Len(r) - 1) :
    r[i].created_at = r[i + 1].created_at => r[i].id > r[i + 1].id

\* ... or the other
TiesByIdAscending(r) ==
  \A i \in 1..(Len(r) - 1) :
    r[i].created_at = r[i + 1].created_at => r[i].id < r[i + 1].id

\* C14: whatever order the store returned the rows in, LogsFor lists rows of
\* equal created_at by their ids: after a load in a run without overlapping
\* invocations, the list is the same for every order the query may answer
\* with, and its ties are in id order.
C14_TieBreakById ==
  (~overlapped /\ friendshipLogs \in OrderedLogs(dbFriendshipLogs)) =>
    \A u \in ProfileIds :
      /\ \A s \in OrderedLogs(dbFriendshipLogs) :
           LogsFor(s, u) = LogsFor(friendshipLogs, u)
      /\ \/ \A s \in OrderedLogs(dbFriendshipLogs) : TiesByIdDescending(LogsFor(s, u))
         \/ \A s \in OrderedLogs(dbFriendshipLogs) : TiesByIdAscending(LogsFor(s, u))

\* what the friend lists show equals what the store's rows give
ProjectionFresh ==
  \A u \in ProfileIds : getFriendsForUser(u) = FriendsIn(dbFriendships, dbProfiles, u)

\* C15: in a run without overlapping invocations, whenever a Connect or
\* Disconnect has returned (with success, as a no-op or with failure) the
\* friend lists the UI derives equal the ones the store's current friendships
\* rows give.
C15_ProjectionFreshAfterReturn ==
  ~overlapped =>
    /\ (\E p \in Procs : inv[p].pc = "done") => ProjectionFresh
    /\ (AllIdle /\ Len(history) > 0) => ProjectionFresh

\* the frame's lookup or write step comes back without error
StepsOk(p, pc) == inv[p].pc = pc /\ Steps(p) /\ Last(inv'[p].calls).ok

\* C16: a Connect whose lookup finds the pair's rows all ended goes on to
\* update one of them; the update of a Connect changes the row it found, and
\* nothing else: same id and pair columns, started_at = now, ended_at = null,
\* every other row as before and no row added.
C16_Reactivation ==
  [][\A p \in Procs :
       LET fr == inv[p]
           rows == OfPair(dbFriendships, fr.userId, fr.friendId)
       IN
       /\ (/\ StepsOk(p, "lookup") /\ fr.op = "add"
           /\ rows # {}
           /\ \A i \in rows : dbFriendships[i].ended_at # NULL)
          => /\ inv'[p].pc = "write"
             /\ inv'[p].existing \in rows
       /\ (StepsOk(p, "write") /\ fr.op = "add" /\ fr.existing # NULL)
          => /\ Last(inv'[p].calls).t = "update"
             /\ Len(dbFriendships') = Len(dbFriendships)
             /\ dbFriendships'[fr.existing] =
                  [id |-> dbFriendships[fr.existing].id,
                   user_a_id |-> dbFriendships[fr.existing].user_a_id,
                   user_b_id |-> dbFriendships[fr.existing].user_b_id,
                   started_at |-> fr.now, ended_at |-> NULL]
             /\ \A i \in 1..Len(dbFriendships) :
                  i # fr.existing => dbFriendships'[i] = dbFriendships[i]]_vars

\* a Connect has reactivated the only row of a pair that a Disconnect had ended
C16_Witness ==
  \E p \in Procs :
    /\ inv[p].pc = "log" /\ inv[p].op = "add"
    /\ inv[p].existing # NULL
    /\ Len(dbFriendships) = 1
    /\ dbFriendships[inv[p].existing].ended_at = NULL
    /\ dbFriendships[inv[p].existing].started_at = inv[p].now
    /\ Len(dbFriendshipLogs) = 2 /\ dbFriendshipLogs[2].action = "ended"

\* C17: the update of a Disconnect sets ended_at = now on the row it located
\* and changes nothing else in the table; in a run without overlap, the next
\* Connect on the pair finds that row and, unless it fails, updates it instead
\* of inserting.
C17_DisconnectFrame ==
  /\ [](\A i \in 1..(Len(history) - 1) :
          LET d == history[i]
              c == history[i + 1]
          IN (/\ d.op = "remove" /\ d.outcome = "success"
              /\ c.op = "add" /\ c.outcome # "failure"
              /\ {c.userId, c.friendId} = {d.userId, d.friendId})
             => /\ c.outcome = "success"
                /\ c.calls[2] = Call("update", TRUE))
  /\ [][\A p \in Procs :
          LET fr == inv[p] IN
          /\ (StepsOk(p, "write") /\ fr.op = "remove")
             => /\ fr.now # NULL
                /\ Len(dbFriendships') = Len(dbFriendships)
                /\ dbFriendships'[fr.existing] =
                     [id |-> dbFriendships[fr.existing].id,
                      user_a_id |-> dbFriendships[fr.existing].user_a_id,
                      user_b_id |-> dbFriendships[fr.existing].user_b_id,
                      started_at |-> dbFriendships[fr.existing].started_at,
                      ended_at |-> fr.now]
                /\ \A i \in 1..Len(dbFriendships) :
                     i # fr.existing => dbFriendships'[i] = dbFriendships[i]
          /\ (/\ StepsOk(p, "lookup") /\ fr.op = "add"
              /\ ~overlapped /\ Len(history) > 0
              /\ Last(history).op = "remove" /\ Last(history).outcome = "success"
              /\ {Last(history).userId, Last(history).friendId}
                   = {fr.userId, fr.friendId})
             => /\ inv'[p].pc = "write"
                /\ inv'[p].existing \in OfPair(dbFriendships, fr.userId, fr.friendId)
                /\ dbFriendships[inv'[p].existing].ended_at # NULL]_vars

\* after a successful Disconnect, the next Connect on the pair has found the
\* ended row, whose started_at is still the one the first Connect wrote
C17_Witness ==
  \E p \in Procs :
    /\ inv[p].pc = "write" /\ inv[p].op = "add"
    /\ inv[p].existing # NULL
    /\ ~overlapped /\ Len(history) > 0
    /\ Last(history).op = "remove" /\ Last(history).outcome = "success"
    /\ dbFriendships[inv[p].existing].ended_at # NULL
    /\ dbFriendships[inv[p].existing].started_at
         < dbFriendships[inv[p].existing].ended_at

\* C18: a Connect whose lookup sees no row for the pair goes on to insert,
\* also while another Connect for the pair is between its lookup and its
\* insert; and its insert, when the store reports no error, adds an active row
\* for the pair whether or not the pair has a row by then.  So two overlapping
\* Connects for a new pair leave two active rows for it.
C18_ConnectRace ==
  [][\A p \in Procs :
       LET fr == inv[p] IN
       /\ (/\ StepsOk(p, "lookup") /\ fr.op = "add"
           /\ OfPair(dbFriendships, fr.userId, fr.friendId) = {})
          => /\ inv'[p].pc = "write"
             /\ inv'[p].existing = NULL
       /\ (StepsOk(p, "write") /\ fr.op = "add" /\ fr.existing = NULL)
          => /\ Last(inv'[p].calls).t = "insert"
             /\ Len(dbFriendships') = Len(dbFriendships) + 1
             /\ SubSeq(dbFriendships', 1, Len(dbFriendships)) = dbFriendships
             /\ {Last(dbFriendships').user_a_id, Last(dbFriendships').user_b_id}
                  = {fr.userId, fr.friendId}
             /\ Last(dbFriendships').ended_at = NULL]_vars

\* two Connects for the same pair are in flight, each has inserted, and the
\* pair has two active rows
C18_Witness ==
  \E p, q \in Procs :
    /\ p # q
    /\ inv[p].op = "add" /\ inv[q].op = "add"
    /\ inv[p].pc = "log" /\ inv[q].pc = "log"
    /\ {inv[p].userId, inv[p].friendId} = {inv[q].userId, inv[q].friendId}
    /\ Last(inv[p].calls) = Call("insert", TRUE)
    /\ Last(inv[q].calls) = Call("insert", TRUE)
    /\ Cardinality(ActiveOfPair(inv[p].userId, inv[p].friendId)) = 2

\* the dialog shows a button that starts this call: Ekle for a profile among
\* the available options, the remove button for a profile among the friends
OfferedByDialog(op, friendId) ==
  \/ op = "add" /\ friendId \in availableFriendOptions
  \/ op = "remove" /\ friendId \in currentFriendList

\* C19: no Connect or Disconnect is started from a button of the dialog while
\* another invocation for the same pair is in flight.
C19_NoOverlapFromDialog ==
  [][\A p \in Procs :
       (/\ inv[p].pc = "idle" /\ Steps(p)
        /\ OfferedByDialog(inv'[p].op, inv'[p].friendId))
       => ~\E q \in Procs \ {p} :
             /\ InFlight(q)
             /\ {inv[q].userId, inv[q].friendId}
                  = {inv'[p].userId, inv'[p].friendId}]_vars

\* C20: every friendships row has user_a_id < user_b_id, and no step changes
\* the pair columns of a row.
C20_CanonicalOrder ==
  /\ [](\A i \in 1..Len(dbFriendships) :
          dbFriendships[i].user_a_id < dbFriendships[i].user_b_id)
  /\ [][\A i \in 1..Len(dbFriendships) :
          /\ i <= Len(dbFriendships')
          /\ dbFriendships'[i].user_a_id = dbFriendships[i].user_a_id
          /\ dbFriendships'[i].user_b_id = dbFriendships[i].user_b_id]_vars

\* a Connect whose actor has the larger id has inserted: the row is stored
\* with the other id first
C20_Witness ==
  \E p \in Procs :
    /\ inv[p].pc = "log" /\ inv[p].op = "add"
    /\ inv[p].userId > inv[p].friendId
    /\ Last(inv[p].calls) = Call("insert", TRUE)
    /\ ~overlapped
    /\ Last(dbFriendships).user_a_id = inv[p].friendId
    /\ Last(dbFriendships).user_b_id = inv[p].userId

\* no invocation has overlapped another and no store call of a handler (the
\* reload aside) has reported an error so far
SerialNoFailure ==
  /\ ~overlapped
  /\ \A i \in 1..Len(history) : \A k \in 1..Len(history[i].calls) :
       history[i].calls[k].t # "load" => history[i].calls[k].ok
  /\ \A p \in Procs : \A k \in 1..Len(inv[p].calls) : inv[p].calls[k].ok

\* started, ended, started, ... beginning with started
Alternates(actions) ==
  \A k \in 1..Len(actions) :
    actions[k] = (IF k % 2 = 1 THEN "started" ELSE "ended")

\* C21: as long as invocations have not overlapped and no store call has
\* failed, the log actions of every pair alternate started, ended, started,
\* ... in append order, beginning with started; and, outside the moment
\* between a row write and its log insert, the pair has an active row exactly
\* when its newest log row is started, and has no row exactly when it has no
\* log row.
C21_Alternation ==
  SerialNoFailure =>
    \A x, y \in ProfileIds :
      LET acts == PairLogActions(x, y) IN
      /\ Alternates(acts)
      /\ (\A p \in Procs : inv[p].pc # "log")
         => /\ (ActiveOfPair(x, y) # {})
                 <=> (acts # <<>> /\ Last(acts) = "started")
            /\ (OfPair(dbFriendships, x, y) = {}) <=> (acts = <<>>)

\* Connect then Disconnect have returned, without overlap or failure: the log
\* reads started, ended and the row is ended
C21_Witness ==
  /\ SerialNoFailure /\ AllIdle
  /\ Len(history) = 2
  /\ history[1].outcome = "success" /\ history[2].outcome = "success"
  /\ \E x, y \in ProfileIds :
       /\ PairLogActions(x, y) = <<"started", "ended">>
       /\ OfPair(dbFriendships, x, y) # {}
       /\ ActiveOfPair(x, y) = {}

\* the invocation of p is a Disconnect on the pair {x, y}
DisconnectOf(p, x, y) ==
  inv[p].op = "remove" /\ {inv[p].userId, inv[p].friendId} = {x, y}

\* C22 as stated: once a pair has two active rows, no Disconnect on the pair
\* writes, logs or reports success (one at its lookup returns failure there),
\* and the pair keeps two active rows.
C22_DisconnectNeverSucceeds ==
  [][\A x, y \in ProfileIds :
       Cardinality(ActiveOfPair(x, y)) >= 2
       => /\ \A p \in Procs :
               (DisconnectOf(p, x, y) /\ Steps(p) /\ inv[p].pc \in {"lookup", "write", "log"})
               => /\ UNCHANGED dbVars
                  /\ inv'[p].outcome # "success"
                  /\ inv[p].pc = "lookup"
                       => inv'[p].pc = "done" /\ inv'[p].outcome = "failure"
          /\ Cardinality(ActiveOfPair(x, y)') >= 2]_vars

\* a Disconnect on the pair has located its row and not yet written
DisconnectPending(x, y) ==
  \E p \in Procs : DisconnectOf(p, x, y) /\ inv[p].pc = "write"

\* C22 as amended: a Disconnect whose lookup runs while the pair has two
\* active rows returns failure there, its one store call being the failed
\* select, with both tables unchanged; and while the pair has two active rows
\* and no Disconnect that located its row earlier is waiting to write, no step
\* ends one of them or lets a Disconnect past its lookup.
C22_LookupFailsOnTwoActive ==
  [][\A x, y \in ProfileIds :
       Cardinality(ActiveOfPair(x, y)) >= 2
       => /\ \A p \in Procs :
               (DisconnectOf(p, x, y) /\ Steps(p) /\ inv[p].pc = "lookup")
               => /\ inv'[p].pc = "done"
                  /\ inv'[p].outcome = "failure"
                  /\ inv'[p].calls = <<Call("select", FALSE)>>
                  /\ UNCHANGED dbVars
          /\ ~DisconnectPending(x, y)
               => /\ Cardinality(ActiveOfPair(x, y)') >= 2
                  /\ ~DisconnectPending(x, y)']_vars

\* a Disconnect has returned failure from its lookup while the pair has two
\* active rows
C22_Witness ==
  \E p \in Procs :
    /\ inv[p].pc = "done" /\ inv[p].op = "remove"
    /\ inv[p].outcome = "failure"
    /\ inv[p].calls = <<Call("select", FALSE)>>
    /\ Cardinality(ActiveOfPair(inv[p].userId, inv[p].friendId)) = 2

\* C23: a Disconnect whose lookup finds the pair's one active row goes on to
\* the update with that row, also while another Disconnect for the pair is
\* past its lookup; its update sets ended_at to its own now whether or not the
\* row is still active, and its log insert adds an ended row and reports
\* success.  So two overlapping Disconnects of an active pair both write, both
\* log and both succeed, and the log holds two ended rows in a row.
C23_DisconnectRace ==
  [][\A p \in Procs :
       LET fr == inv[p]
           act == ActiveOfPair(fr.userId, fr.friendId)
       IN
       fr.op = "remove" =>
         /\ (StepsOk(p, "lookup") /\ Cardinality(act) = 1)
            => /\ inv'[p].pc = "write"
               /\ inv'[p].existing \in act
         /\ StepsOk(p, "write")
            => /\ inv'[p].pc = "log"
               /\ dbFriendships'[fr.existing].ended_at = fr.now
         /\ StepsOk(p, "log")
            => /\ inv'[p].outcome = "success"
               /\ Len(dbFriendshipLogs') = Len(dbFriendshipLogs) + 1
               /\ Last(dbFriendshipLogs').action = "ended"]_vars

\* two Disconnects for the pair have both written, logged and reported
\* success: one started row is followed by two ended rows
C23_Witness ==
  \E p, q \in Procs :
    /\ p # q
    /\ inv[p].op = "remove" /\ inv[q].op = "remove"
    /\ inv[p].pc = "reload" /\ inv[q].pc = "reload"
    /\ inv[p].outcome = "success" /\ inv[q].outcome = "success"
    /\ inv[p].existing = inv[q].existing
    /\ PairLogActions(inv[p].userId, inv[p].friendId)
         = <<"started", "ended", "ended">>

\* the timestamp the friendships write of a frame put into its row: started_at
\* of the row it updated or appended (Connect), ended_at of the row it
\* updated (Disconnect)
WrittenTimestamp(rows, fr) ==
  IF fr.op = "remove" THEN rows[fr.existing].ended_at
  ELSE IF fr.existing # NULL THEN rows[fr.existing].started_at
  ELSE Last(rows).started_at

\* C24: as long as invocations have not overlapped, every friendships row
\* with ended_at set has started_at <= ended_at; a handler reads now once, at
\* its entry before the lookup (the clock never goes back), keeps that value
\* for the whole invocation and writes it into the row.
C24_StartBeforeEnd ==
  /\ [](~overlapped =>
          \A i \in 1..Len(dbFriendships) :
            dbFriendships[i].ended_at # NULL
              => dbFriendships[i].started_at <= dbFriendships[i].ended_at)
  /\ [][\A p \in Procs :
          /\ (inv[p].pc = "idle" /\ Steps(p) /\ inv'[p].pc = "lookup")
             => /\ inv'[p].now = clock'
                /\ clock' >= clock
                /\ inv'[p].calls = <<>>
          /\ (InFlight(p) /\ Steps(p) /\ inv'[p].pc # "idle")
             => inv'[p].now = inv[p].now
          /\ StepsOk(p, "write")
             => WrittenTimestamp(dbFriendships', inv[p]) = inv[p].now]_vars

\* after a Connect and a later Disconnect, without overlap, the row is ended
\* after it was started
C24_Witness ==
  /\ ~overlapped /\ AllIdle
  /\ \E i \in 1..Len(dbFriendships) :
       /\ dbFriendships[i].ended_at # NULL
       /\ dbFriendships[i].started_at < dbFriendships[i].ended_at

\* C25: the log row a Connect or Disconnect appends has created_at = the now
\* of the invocation, the value its friendships write put into the row; in a
\* run without overlap the row still carries that value when the log row is
\* appended (started_at for Connect, ended_at for Disconnect).
C25_LogTimestamp ==
  [][\A p \in Procs :
       /\ StepsOk(p, "write")
          => WrittenTimestamp(dbFriendships', inv[p]) = inv[p].now
       /\ StepsOk(p, "log")
          => /\ Last(dbFriendshipLogs').created_at = inv[p].now
             /\ ~overlapped
                  => \E i \in OfPair(dbFriendships', inv[p].userId, inv[p].friendId) :
                       Last(dbFriendshipLogs').created_at =
                         (IF inv[p].op = "add" THEN dbFriendships'[i].started_at
                          ELSE dbFriendships'[i].ended_at)]_vars

\* a Connect at clock 2 has inserted and logged: the log row and the row carry
\* the same timestamp
C25_Witness ==
  \E p \in Procs :
    /\ inv[p].pc = "reload" /\ inv[p].op = "add"
    /\ ~overlapped
    /\ inv[p].now = 2
    /\ Last(dbFriendshipLogs).created_at = 2
    /\ Last(dbFriendships).started_at = 2
    /\ Last(dbFriendships).ended_at = NULL

\* a step in which a loadData sets its state: the one of the mount effect or
\* the one a handler awaits before it returns
LoadStep ==
  \/ loading /\ ~loading'
  \/ \E p \in Procs : inv[p].pc = "reload" /\ Steps(p)

\* what a loadData whose profiles query came back without error leaves behind
ProfilesLoaded ==
  /\ profiles' = dbProfiles
  /\ selectedLogUserId' =
       (IF dbProfiles = <<>> THEN NULL
        ELSE IF selectedLogUserId \in Range(dbProfiles) THEN selectedLogUserId
        ELSE dbProfiles[1])
  /\ selectedLogUserId' = NULL <=> profiles' = <<>>
  /\ selectedLogUserId' # NULL => selectedLogUserId' \in Range(profiles')

\* C26: a loadData either leaves profiles and selectedLogUserId as they were
\* (its profiles query failed) or sets profiles to the table and
\* selectedLogUserId to null when the table is empty, to the previous
\* selection when that profile is in the table, to the first loaded profile
\* otherwise; a reload recorded as error-free does the latter.  So in every
\* state selectedLogUserId is null exactly when no profile is loaded, and
\* otherwise names a loaded profile.
C26_SelectedLogUser ==
  /\ [](/\ selectedLogUserId = NULL <=> profiles = <<>>
        /\ selectedLogUserId # NULL => selectedLogUserId \in Range(profiles))
  /\ [][LoadStep =>
          /\ ProfilesLoaded \/ UNCHANGED <<profiles, selectedLogUserId>>
          /\ (/\ Len(history') > Len(history)
              /\ Last(Last(history').calls) = Call("load", TRUE))
             => ProfilesLoaded]_vars

\* a new profile has been saved and the reload came back without error: two
\* profiles are loaded and the selection is still the older one, not the first
C26_Witness ==
  /\ AllIdle /\ ~overlapped
  /\ Len(history) > 0
  /\ Last(history).op = "save" /\ Last(history).userId = NULL
  /\ Last(Last(history).calls) = Call("load", TRUE)
  /\ Len(profiles) = 2
  /\ selectedLogUserId = profiles[2]

====
